---- MODULE Spec2Model ----
(***************************************************************************)
(* Model of the concurrent, rate-limited, retrying fetch engine of         *)
(* src/core/requester.py (RateLimitedClient, RequestStrategy and its two   *)
(* variants) driven by src/entrypoint.py fetch, with the trio nursery, the *)
(* trio Semaphore and the tenacity retry wrapper it is built on.           *)
(*                                                                         *)
(* One traversal is modelled: fetch() builds the context, the strategy     *)
(* dispatches one batch (simple) or one batch per base path (paginated),   *)
(* every batch runs its tasks under cooperative interleaving, and the      *)
(* traversal returns the read-back of the sink or raises.                  *)
(***************************************************************************)
EXTENDS Integers, Sequences, FiniteSets, Bags, TLC

\* ---------------------------------------------------------------- bounds
MaxPaths == 2        \* longest context.paths sequence explored
MaxPages == 2        \* largest page count explored
MaxGate  == 2        \* largest max_concurrent_requests explored
MaxPool  == 2        \* largest rotator pool explored
MaxTime  == 4        \* last instant of the clock explored
MaxInterval == 2     \* largest settings.interval explored
MaxAttempts == 6     \* largest max_retry_attempts explored by the backoff
MaxRuns  == 2        \* most traversals made on one collection

\* ------------------------------------------------------ program constants
max_retry_attempts == 3      \* ClientSettings.max_retry_attempts

base_url == "https://example.test"
Paths == {"/a", "/b"}

\* the default of fetch's paths parameter
default_paths == <<"/">>

VARIABLES
    strategy,                 \* "simple" | "paginated"
    ctx_paths,                \* RequestContext.paths
    number_of_pages,          \* PaginatedRequestStrategy._number_of_pages
    max_concurrent_requests,  \* default_settings.max_concurrent_requests
    pc,                       \* position of the main task inside fetch
    base_idx,                 \* index of the for loop of the paginated fetch
    batch,                    \* paths handed to the nursery of this batch
    task,                     \* the units of work of this batch
    semaphore,                \* Semaphore._value of this batch
    lot,                      \* Semaphore._lot: parked tasks, FIFO
    cancelled,                \* nursery.cancel_scope.cancel_called
    errors,                   \* exceptions collected by the nursery
    sink,                     \* documents of the destination collection (a bag)
    result,                   \* what fetch handed to its caller
    now,                      \* time(): the clock, in seconds
    user_agents,              \* Rotator.user_agents
    ua_returned,              \* what the last Rotator.get returned
    interval,                 \* RateLimitedClient._interval
    caller,                   \* tasks calling RateLimitedClient.get
    last_call,                \* instant of the last network call, 0: none yet
    gap,                      \* smallest distance between two network calls
    ceiling,                  \* max_retry_attempts of the retried paths
    wrapper,                  \* retry wrappers: attempt number and waits
    run,                      \* number of the traversal on the collection
    earlier                   \* what earlier traversals left in the sink

traversal == <<strategy, ctx_paths, number_of_pages,
               max_concurrent_requests, pc, base_idx, batch, task, semaphore,
               lot, cancelled, errors, sink, result>>

rotator == <<user_agents, ua_returned>>

client == <<interval, caller, last_call, gap>>

backoff == <<ceiling, wrapper>>

runs == <<run, earlier>>

vars == <<traversal, now, rotator, client, backoff, runs>>

\* what no step of a running traversal changes: its configuration, and the
\* clock, pool, callers and wrappers followed in the specifications of their
\* own below
config == <<strategy, ctx_paths, number_of_pages, max_concurrent_requests,
            now, rotator, client, backoff, runs>>

\* --------------------------------------------------------------- helpers
SeqsUpTo(S, n) == UNION {[1..k -> S] : k \in 0..n}

Tasks == DOMAIN task

Final == {"done", "failed", "cancelled"}

Holding == {"delay", "network"}

Holders == {p \in Tasks : task[p].st \in Holding}

\* every task of the batch has run up to its first checkpoint: the tasks
\* start_soon made runnable all run before any of them is resumed
Started == \A p \in Tasks : task[p].st # "spawned"

\* the site crawled: it has its root, "/a" and the pages of "/a", and
\* nothing under "/b"
Site == {"/", "/a"} \cup {"/a?page=" \o ToString(page) : page \in 1..MaxPages}

status_of(path) == IF path \in Site THEN 200 ELSE 404

\* what one network call for path ends with: a response of the site, a
\* transport failure (RequestError) or any other exception
Wire(path) == {[kind |-> "response", status_code |-> status_of(path)],
               [kind |-> "RequestError", status_code |-> 0],
               [kind |-> "OtherError", status_code |-> 0]}

\* the page-count callback the caller supplies to PaginatedRequestStrategy
resolve(path) == IF path \in Site THEN MaxPages ELSE 0

\* ----------------------------------------------------- RateLimitedClient
\* RateLimitedClient.get: returns whatever AsyncClient.get returns; the
\* transport's exceptions pass through, a response of any status is returned.
get(wire) ==
    IF wire.kind = "response"
    THEN [raised |-> "none", status_code |-> wire.status_code]
    ELSE [raised |-> wire.kind, status_code |-> 0]

\* faulty variant: the identity is not attached before the sleep
user_agent_header_late(selected) == selected

\* kwargs['headers']['User-Agent'] = get_random_user_agent(): the first
\* statement of get, one more identity selected before sleep(interval)
user_agent_header(selected) == selected + 1

\* a task that has the permit runs on into get: header, then sleep(interval)
admitted(rec) ==
    [rec EXCEPT !.st = "delay", !.selected = user_agent_header(@)]

\* ----------------------------------------------------------- retry policy
\* faulty variants of the retry predicate: retry on any exception, and
\* retry on storage failures too
retry_if_exception_type_any(exc) == exc # "none"

retry_if_exception_type_storage(exc) ==
    exc \in {"HTTPStatusError", "RequestError", "PyMongoError"}

retry_if_exception_type(exc) == exc \in {"HTTPStatusError", "RequestError"}

stop_after_attempt(attempt_number) == attempt_number >= max_retry_attempts

\* tenacity's decision once the wrapped call ended with exc at attempt n
retry(exc, n) ==
    IF exc = "none" THEN "done"
    ELSE IF ~retry_if_exception_type(exc) THEN exc
    ELSE IF stop_after_attempt(n) THEN "RetryError"
    ELSE "backoff"

\* --------------------------------------------------------------- Semaphore
\* Semaphore.acquire_nowait succeeds while the counter is positive
\* faulty variant: a gate that admits without looking at its counter
acquire_nowait_unbounded(value) == TRUE

acquire_nowait(value) == value > 0

\* Semaphore.release as seen by the counter: a parked task takes the permit
\* faulty variant: leaving the body without giving the permit back
release_value_leak(value, parked) == value

release_value(value, parked) == IF parked # <<>> THEN value ELSE value + 1

\* ------------------------------------------------------------- strategies
RECURSIVE unique(_)
\* a sequence without the repetitions of its elements
unique(seq) ==
    IF Len(seq) <= 1 THEN seq
    ELSE IF \E i \in 2..Len(seq) : seq[i] = seq[1]
    THEN unique(Tail(seq))
    ELSE <<seq[1]>> \o unique(Tail(seq))

\* faulty variant: the context's paths are dispatched as a set
dispatch_paths_unique(paths, context_paths) ==
    IF paths # <<>> THEN paths ELSE unique(context_paths)

\* `paths or self.context.paths` of _send_requests
dispatch_paths(paths, context_paths) ==
    IF paths # <<>> THEN paths ELSE context_paths

\* faulty variant: pages numbered from 0
paginate_paths_from_zero(path, n) ==
    [page \in 1..n |-> path \o "?page=" \o ToString(page - 1)]

\* the list comprehension of _paginate
paginate_paths(path, n) ==
    [page \in 1..n |-> path \o "?page=" \o ToString(page)]

\* HTTPResponse built by _process_response
HTTPResponse(path, status_code) ==
    [url |-> base_url \o path, status_code |-> status_code]

\* -------------------------------------------- parts that are not running
RotatorIdle == user_agents = <<>> /\ ua_returned = "none"

ClientIdle == interval = 0 /\ caller = <<>> /\ last_call = 0 /\ gap = 0

BackoffIdle == ceiling = 0 /\ wrapper = <<>>

\* the first traversal on a collection that holds nothing yet
FirstRun == run = 1 /\ earlier = EmptyBag

TraversalIdle ==
    /\ strategy = "simple"
    /\ ctx_paths = <<>>
    /\ number_of_pages = [kind |-> "none", n |-> 0]
    /\ max_concurrent_requests = 1
    /\ pc = "fetch"
    /\ base_idx = 1
    /\ batch = <<>>
    /\ task = <<>>
    /\ semaphore = 0
    /\ lot = <<>>
    /\ cancelled = FALSE
    /\ errors = {}
    /\ sink = EmptyBag
    /\ result = "none"
    /\ FirstRun

\* ---------------------------------------------------------------- Init
Init ==
    /\ strategy \in {"simple", "paginated"}
    /\ ctx_paths \in SeqsUpTo(Paths, MaxPaths) \cup {default_paths}
    /\ number_of_pages \in
         IF strategy = "simple"
         THEN {[kind |-> "none", n |-> 0]}
         ELSE [kind : {"fixed"}, n : 0..MaxPages]
                \cup {[kind |-> "callable", n |-> 0]}
    /\ max_concurrent_requests \in 1..MaxGate
    /\ pc = "fetch"
    /\ base_idx = 1
    /\ batch = <<>>
    /\ task = <<>>
    /\ semaphore = 0
    /\ lot = <<>>
    /\ cancelled = FALSE
    /\ errors = {}
    /\ sink = EmptyBag
    /\ result = "none"
    /\ now = 1
    /\ RotatorIdle
    /\ ClientIdle
    /\ BackoffIdle
    /\ FirstRun

\* --------------------------------------------------------- _send_requests
\* opens the client and the nursery, creates the semaphore and spawns one
\* task per path; the for loop has no checkpoint, so this is one step
_send_requests(paths) ==
    LET ps == dispatch_paths(paths, ctx_paths) IN
    /\ batch' = ps
    /\ task' = [p \in 1..Len(ps) |->
                  [st |-> "spawned", attempts |-> 0, hist |-> <<>>,
                   selected |-> 0, calls |-> 0]]
    /\ semaphore' = max_concurrent_requests
    /\ lot' = <<>>
    /\ cancelled' = FALSE
    /\ errors' = {}
    /\ pc' = "nursery"

\* SimpleRequestStrategy.fetch up to the nursery
SimpleFetch ==
    /\ pc = "fetch"
    /\ strategy = "simple"
    /\ _send_requests(<<>>)
    /\ UNCHANGED <<config, base_idx, sink, result>>

\* PaginatedRequestStrategy._get_number_of_pages
_get_number_of_pages(path) ==
    IF number_of_pages.kind = "callable"
    THEN resolve(path)
    ELSE number_of_pages.n

\* one iteration of the for loop of PaginatedRequestStrategy.fetch
_paginate ==
    /\ pc = "fetch"
    /\ strategy = "paginated"
    /\ base_idx <= Len(ctx_paths)
    /\ _send_requests(paginate_paths(ctx_paths[base_idx],
                                     _get_number_of_pages(ctx_paths[base_idx])))
    /\ UNCHANGED <<config, base_idx, sink, result>>

\* PaginatedRequestStrategy.fetch over an empty context.paths
PaginatedFetchEmpty ==
    /\ pc = "fetch"
    /\ strategy = "paginated"
    /\ ctx_paths = <<>>
    /\ pc' = "returned"
    /\ result' = "sequence"
    /\ UNCHANGED <<config, base_idx, batch, task, semaphore, lot, cancelled,
                   errors, sink>>

\* -------------------------------------------------------- _process_request
\* faulty variant: a task that goes into backoff keeps its permit
released_after_backoff(t, p, st) ==
    IF st = "backoff"
    THEN [t EXCEPT ![p].st = st]
    ELSE [q \in DOMAIN t |->
             IF q = p THEN [t[q] EXCEPT !.st = st]
             ELSE IF lot # <<>> /\ q = Head(lot) THEN admitted(t[q])
             ELSE t[q]]

\* Semaphore.release by task p: hand the permit to the head of the lot
released(t, p, st) ==
    [q \in DOMAIN t |->
        IF q = p THEN [t[q] EXCEPT !.st = st]
        ELSE IF lot # <<>> /\ q = Head(lot) THEN admitted(t[q])
        ELSE t[q]]

\* nursery.cancel_scope.cancel(): parked tasks leave the lot with Cancelled
cancel_scope(t, woken) ==
    [q \in DOMAIN t |->
        IF t[q].st = "parked" /\ q \notin woken
        THEN [t[q] EXCEPT !.st = "cancelled",
                          !.hist = Append(@, "Cancelled")]
        ELSE t[q]]

\* faulty variant: the exception of a child is swallowed
collect_swallowed(excs, exc) == excs

\* faulty variant: only the first exception of the batch is kept
collect_first(excs, exc) == IF excs = {} THEN {exc} ELSE excs

\* the nursery keeps every exception its children raise and raises them
\* together when the block is left
collect(excs, exc) == excs \cup {exc}

\* faulty variant: the block is left as soon as one child has finished
children_finished_any(t) ==
    \E p \in DOMAIN t : t[p].st \in Final

\* the nursery block waits for every child
children_finished(t) ==
    \A p \in DOMAIN t : t[p].st \in Final

\* entering the wrapped call: `async with semaphore`
enter(p) ==
    IF acquire_nowait(semaphore)
    THEN /\ task' = [task EXCEPT ![p] = admitted([@ EXCEPT !.attempts = @ + 1])]
         /\ semaphore' = semaphore - 1
         /\ UNCHANGED lot
    ELSE /\ task' = [task EXCEPT ![p].st = "parked", ![p].attempts = @ + 1]
         /\ lot' = Append(lot, p)
         /\ UNCHANGED semaphore

\* first call of the retry wrapper by a freshly spawned task
StartTask(p) ==
    /\ pc = "nursery"
    /\ task[p].st = "spawned"
    /\ enter(p)
    /\ UNCHANGED <<config, pc, base_idx, batch, cancelled, errors, sink,
                   result>>

\* the backoff sleep of the retry wrapper ends: next attempt
Retry(p) ==
    /\ pc = "nursery"
    /\ Started
    /\ task[p].st = "backoff"
    /\ ~cancelled
    /\ enter(p)
    /\ UNCHANGED <<config, pc, base_idx, batch, cancelled, errors, sink,
                   result>>

\* RateLimitedClient.get: sleep(interval) ends, the network call is issued
SendGet(p) ==
    /\ pc = "nursery"
    /\ Started
    /\ task[p].st = "delay"
    /\ ~cancelled
    /\ task' = [task EXCEPT ![p].st = "network", ![p].calls = @ + 1]
    /\ UNCHANGED <<config, pc, base_idx, batch, semaphore, lot, cancelled,
                   errors, sink, result>>

\* the body of _process_request ended with exc at its current attempt:
\* leave `async with semaphore`, then let the retry wrapper decide
finish(p, exc) ==
    LET d   == retry(exc, task[p].attempts)
        st  == IF d = "done" THEN "done"
               ELSE IF d = "backoff" THEN "backoff" ELSE "failed"
        h   == IF exc = "none" THEN "returned" ELSE exc
        t1  == released([task EXCEPT ![p].hist = Append(@, h)], p, st)
        wk  == IF lot # <<>> THEN {Head(lot)} ELSE {}
    IN
    /\ semaphore' = release_value(semaphore, lot)
    /\ IF st = "failed"
       THEN /\ task' = cancel_scope(t1, wk)
            /\ lot' = <<>>
            /\ cancelled' = TRUE
            /\ errors' = collect(errors,
                                  [task |-> p, path |-> batch[p], exc |-> d])
       ELSE /\ task' = t1
            /\ lot' = IF lot # <<>> THEN Tail(lot) ELSE lot
            /\ UNCHANGED <<cancelled, errors>>

\* faulty variant: the document is written although the call fails
insert_document_unacknowledged(document, ok) ==
    sink' = sink (+) SetToBag({document})

\* faulty variant: the document is kept back instead of being written
insert_document_deferred(document, ok) == UNCHANGED sink

\* MongoDBClient.insert_document
insert_document(document, ok) ==
    IF ok THEN sink' = sink (+) SetToBag({document}) ELSE UNCHANGED sink

\* MongoDBClient.get_all_documents: every document of the collection,
\* without its _id
get_all_documents(collection) == collection

\* the network call of task p ends; a response goes to _process_response.
\* A call whose outcome was already delivered when the scope was cancelled
\* still ends with that outcome, so this step does not look at `cancelled`.
Response(p) ==
    /\ pc = "nursery"
    /\ task[p].st = "network"
    /\ \E wire \in Wire(batch[p]), inserted \in BOOLEAN :
         LET r == get(wire) IN
         IF r.raised = "none"
         THEN /\ insert_document(HTTPResponse(batch[p], r.status_code),
                                 inserted)
              /\ finish(p, IF inserted THEN "none" ELSE "PyMongoError")
         ELSE /\ inserted
              /\ UNCHANGED sink
              /\ finish(p, r.raised)
    /\ UNCHANGED <<config, pc, base_idx, batch, result>>

\* Cancelled is delivered to task p at the checkpoint it is suspended in
Cancelled(p) ==
    /\ pc = "nursery"
    /\ cancelled
    /\ task[p].st \in {"delay", "network", "backoff"}
    /\ IF task[p].st \in Holding
       THEN /\ semaphore' = release_value(semaphore, lot)
            /\ task' = released([task EXCEPT ![p].hist =
                                    Append(@, "Cancelled")], p, "cancelled")
            /\ lot' = IF lot # <<>> THEN Tail(lot) ELSE lot
       ELSE /\ task' = [task EXCEPT ![p].st = "cancelled"]
            /\ UNCHANGED <<semaphore, lot>>
    /\ UNCHANGED <<config, pc, base_idx, batch, cancelled, errors, sink,
                   result>>

\* the nursery block is left once every child has finished; an exception of
\* a child is raised out of _send_requests and out of fetch
NurseryExit ==
    /\ pc = "nursery"
    /\ children_finished(task)
    /\ IF errors # {}
       THEN /\ pc' = "raised"
            /\ result' = "raised"
            /\ UNCHANGED base_idx
       ELSE IF strategy = "paginated" /\ base_idx < Len(ctx_paths)
       THEN /\ pc' = "fetch"
            /\ base_idx' = base_idx + 1
            /\ UNCHANGED result
       ELSE /\ pc' = "returned"
            /\ result' = "sequence"
            /\ UNCHANGED base_idx
    /\ UNCHANGED <<config, batch, task, semaphore, lot, cancelled, errors,
                   sink>>

Next ==
    \/ SimpleFetch
    \/ _paginate
    \/ PaginatedFetchEmpty
    \/ \E p \in Tasks : StartTask(p)
    \/ \E p \in Tasks : Retry(p)
    \/ \E p \in Tasks : SendGet(p)
    \/ \E p \in Tasks : Response(p)
    \/ \E p \in Tasks : Cancelled(p)
    \/ NurseryExit

Spec == Init /\ [][Next]_vars

\* ------------------------------------------- more paths than permits
\* a simple traversal whose batch has one path more than the largest gate
InitQueued ==
    /\ strategy = "simple"
    /\ ctx_paths \in [1..(MaxGate + 1) -> Paths]
    /\ number_of_pages = [kind |-> "none", n |-> 0]
    /\ max_concurrent_requests \in 1..MaxGate
    /\ pc = "fetch"
    /\ base_idx = 1
    /\ batch = <<>>
    /\ task = <<>>
    /\ semaphore = 0
    /\ lot = <<>>
    /\ cancelled = FALSE
    /\ errors = {}
    /\ sink = EmptyBag
    /\ result = "none"
    /\ now = 1
    /\ RotatorIdle
    /\ ClientIdle
    /\ BackoffIdle
    /\ FirstRun

NextQueued ==
    \/ SimpleFetch
    \/ \E p \in Tasks : StartTask(p)
    \/ \E p \in Tasks : Retry(p)
    \/ \E p \in Tasks : SendGet(p)
    \/ \E p \in Tasks : Response(p)
    \/ \E p \in Tasks : Cancelled(p)
    \/ NurseryExit

\* trio.run drives the scheduler until the main task is done: a task that
\* can run does run, and every network or sink call ends
SpecQueued == InitQueued /\ [][NextQueued]_vars /\ WF_vars(NextQueued)

\* ------------------------------------------------------------ type check
TypeOK ==
    /\ strategy \in {"simple", "paginated"}
    /\ pc \in {"fetch", "nursery", "returned", "raised"}
    /\ semaphore \in Int
    /\ \A p \in Tasks : task[p].st \in
         {"spawned", "parked", "delay", "network", "backoff"} \cup Final

\* ------------------------------------------------------- shared vocabulary
\* the scope of a batch has closed: the nursery block was left
ScopeClosed ==
    \/ pc = "raised"
    \/ pc = "returned" /\ ~(strategy = "paginated" /\ ctx_paths = <<>>)
    \/ pc = "fetch" /\ base_idx > 1

\* the retry wrapper of task p raised RetryError: its retries are exhausted
Exhausted(p) ==
    /\ task[p].st = "failed"
    /\ [task |-> p, path |-> batch[p], exc |-> "RetryError"] \in errors

\* every attempt task p made so far ended with a retryable failure
OnlyRetryable(p) ==
    \A i \in 1..Len(task[p].hist) :
        task[p].hist[i] \in {"HTTPStatusError", "RequestError"}

Min(a, b) == IF a <= b THEN a ELSE b

Max(a, b) == IF a >= b THEN a ELSE b

\* the clock advances; nothing else moves with it
Tick ==
    /\ now < MaxTime
    /\ now' = now + 1
    /\ UNCHANGED <<traversal, rotator, client, backoff, runs>>

\* ------------------------------------------------------------- the rotator
\* two entries of the static pool: a desktop Chrome and a mobile Firefox
Agents ==
    {"Mozilla/5.0 (Windows NT 10.0; Win64; x64) AppleWebKit/537.36 (KHTML, like Gecko) Chrome/113.0.0.0 Safari/537.36",
     "Mozilla/5.0 (Android 12; Mobile; rv:109.0) Gecko/113.0 Firefox/113.0"}

\* what ua_parser reads in an entry: browser family, major version, OS family
Parse(agent) ==
    IF agent = "Mozilla/5.0 (Android 12; Mobile; rv:109.0) Gecko/113.0 Firefox/113.0"
    THEN [family |-> "Firefox Mobile", major |-> 113, os |-> "Android"]
    ELSE [family |-> "Chrome", major |-> 113, os |-> "Windows"]

\* UserAgent.__init__ at instant t, with the cached properties read
UserAgent(agent, t) ==
    [agent           |-> agent,
     browser         |-> Parse(agent).family,
     browser_version |-> Parse(agent).major,
     os              |-> Parse(agent).os,
     last_used       |-> t]

browser_weights(browser) ==
    CASE browser = "Chrome" -> 100
      [] browser \in {"Firefox", "Edge"} -> 50
      [] OTHER -> 0

os_weights(os) ==
    CASE os = "Windows" -> 150
      [] os = "Mac OS X" -> 100
      [] os = "Android" -> -100
      [] os \in {"Ubuntu", "Linux"} -> -50
      [] OTHER -> 0

weigh_user_agent(user_agent, t) ==
    1000
      + (IF user_agent.last_used # 0 THEN t - user_agent.last_used ELSE 0)
      + (IF user_agent.browser_version # 0
            THEN user_agent.browser_version * 10 ELSE 0)
      + browser_weights(user_agent.browser)
      + os_weights(user_agent.os)

\* random.choices: any member whose weight gives it a share of the total
choices(population, weights) ==
    {i \in DOMAIN population : weights[i] > 0}

\* faulty variant: the time since the last use is stored, not the instant
last_used_stamp_elapsed(t, previous) == t - previous

\* user_agent.last_used = time()
last_used_stamp(t, previous) == t

\* faulty variant: every member of the pool is marked as used
mark_used_all(pool, i, stamp) ==
    [j \in DOMAIN pool |-> [pool[j] EXCEPT !.last_used = stamp]]

\* only the selected object is assigned to
mark_used(pool, i, stamp) == [pool EXCEPT ![i].last_used = stamp]

\* Rotator(user_agents).get: weigh every member, draw one, stamp it and
\* return its string; the method has no checkpoint, so it runs as one step
get_random_user_agent ==
    \E i \in choices(user_agents,
                     [j \in DOMAIN user_agents |->
                         weigh_user_agent(user_agents[j], now)]) :
        /\ user_agents' =
              mark_used(user_agents, i,
                        last_used_stamp(now, user_agents[i].last_used))
        /\ ua_returned' = user_agents[i].agent

\* the pool is built once, when the module is imported
InitRotator ==
    /\ TraversalIdle
    /\ ClientIdle
    /\ BackoffIdle
    /\ now = 1
    /\ \E pool \in SeqsUpTo(Agents, MaxPool) \ {<<>>} :
          user_agents = [i \in DOMAIN pool |-> UserAgent(pool[i], now)]
    /\ ua_returned = "none"

\* a call of the rotator by whichever task runs
Rotator_get ==
    /\ get_random_user_agent
    /\ UNCHANGED <<traversal, now, client, backoff, runs>>

NextRotator ==
    \/ Rotator_get
    \/ Tick

SpecRotator == InitRotator /\ [][NextRotator]_vars

\* ------------------------------------------------ the rate-limited client
\* the tasks of a batch that may be inside RateLimitedClient.get together
Callers == 1..MaxGate

InitClient ==
    /\ TraversalIdle
    /\ BackoffIdle
    /\ now = 1
    /\ user_agents = <<UserAgent(CHOOSE agent \in Agents : TRUE, now)>>
    /\ ua_returned = "none"
    /\ interval \in 0..MaxInterval
    /\ caller = [c \in Callers |-> [st |-> "idle", wake |-> 0]]
    /\ last_call = 0
    /\ gap = MaxTime          \* no two calls yet: no distance exceeds this

\* RateLimitedClient.get up to its sleep: the header is set, then the
\* caller sleeps for the interval, counted from its own entry
RateLimitedClient_get(c) ==
    /\ caller[c].st = "idle"
    /\ get_random_user_agent
    /\ caller' = [caller EXCEPT ![c] = [st |-> "sleep",
                                        wake |-> now + interval]]
    /\ UNCHANGED <<traversal, now, interval, last_call, gap, backoff, runs>>

\* the sleep is over: super().get sends the request
AsyncClient_get(c) ==
    /\ caller[c].st = "sleep"
    /\ now >= caller[c].wake
    /\ caller' = [caller EXCEPT ![c].st = "request"]
    /\ last_call' = now
    /\ gap' = IF last_call = 0 THEN gap ELSE Min(gap, now - last_call)
    /\ UNCHANGED <<traversal, now, rotator, interval, backoff, runs>>

\* the response is back; the task may call get again (a retry)
ClientReturn(c) ==
    /\ caller[c].st = "request"
    /\ caller' = [caller EXCEPT ![c].st = "idle"]
    /\ UNCHANGED <<traversal, now, rotator, interval, last_call, gap,
                   backoff, runs>>

NextClient ==
    \/ \E c \in Callers : RateLimitedClient_get(c)
    \/ \E c \in Callers : AsyncClient_get(c)
    \/ \E c \in Callers : ClientReturn(c)
    \/ Tick

SpecClient == InitClient /\ [][NextClient]_vars

\* ------------------------------------------------------------- the backoff
multiplier == 1

wait_min == 2

wait_max == 10

RECURSIVE pow2(_)
pow2(n) == IF n = 0 THEN 1 ELSE 2 * pow2(n - 1)

\* faulty variant: the maximum wait is not applied
wait_exponential_uncapped(attempt_number) ==
    Max(0, Max(wait_min, multiplier * pow2(attempt_number - 1)))

\* faulty variant: the exponent is the attempt number itself
wait_exponential_late(attempt_number) ==
    Max(Max(0, wait_min), Min(multiplier * pow2(attempt_number), wait_max))

\* wait_exponential(multiplier=1, min=2, max=10) after attempt_number
wait_exponential(attempt_number) ==
    Max(Max(0, wait_min),
        Min(multiplier * pow2(attempt_number - 1), wait_max))

\* the paths whose retry wrappers are followed
Wrapped == 1..MaxPaths

\* what one attempt of the wrapped call can end with
Outcomes == {"none", "RequestError", "KeyError"}

\* tenacity's decision for a wrapper whose ceiling is max_attempt_number
iter(exc, attempt_number, max_attempt_number) ==
    IF exc = "none" THEN "done"
    ELSE IF ~retry_if_exception_type(exc) THEN "failed"
    ELSE IF attempt_number >= max_attempt_number THEN "failed"
    ELSE "sleep"

InitBackoff ==
    /\ TraversalIdle
    /\ RotatorIdle
    /\ ClientIdle
    /\ now = 1
    /\ ceiling \in 1..MaxAttempts
    /\ wrapper = [p \in Wrapped |->
                     [st |-> "call", attempt_number |-> 1, waits |-> <<>>]]

\* one attempt of the wrapped call ends; a retryable failure below the
\* ceiling puts the wrapper to sleep for the wait of that attempt
Attempt(p) ==
    /\ wrapper[p].st = "call"
    /\ \E exc \in Outcomes :
          LET next == iter(exc, wrapper[p].attempt_number, ceiling)
          IN  wrapper' = [wrapper EXCEPT
                  ![p].st = next,
                  ![p].waits =
                      IF next = "sleep"
                         THEN Append(@, wait_exponential(
                                           wrapper[p].attempt_number))
                         ELSE @]
    /\ UNCHANGED <<traversal, now, rotator, client, ceiling, runs>>

\* the wait is over: the next attempt starts
NextAttempt(p) ==
    /\ wrapper[p].st = "sleep"
    /\ wrapper' = [wrapper EXCEPT ![p].st = "call",
                                  ![p].attempt_number = @ + 1]
    /\ UNCHANGED <<traversal, now, rotator, client, ceiling, runs>>

NextBackoff ==
    \/ \E p \in Wrapped : Attempt(p)
    \/ \E p \in Wrapped : NextAttempt(p)

SpecBackoff == InitBackoff /\ [][NextBackoff]_vars

\* -------------------------------------------------- paginated traversals
\* fetch called with a PaginatedRequestStrategy
InitPaginated ==
    /\ Init
    /\ strategy = "paginated"

NextPaginated ==
    \/ _paginate
    \/ PaginatedFetchEmpty
    \/ \E p \in Tasks : StartTask(p)
    \/ \E p \in Tasks : Retry(p)
    \/ \E p \in Tasks : SendGet(p)
    \/ \E p \in Tasks : Response(p)
    \/ \E p \in Tasks : Cancelled(p)
    \/ NurseryExit

SpecPaginated == InitPaginated /\ [][NextPaginated]_vars

\* ---------------------------------------- traversals on one collection
\* simple traversals of the site's paths, one after the other, all writing
\* to the same collection
InitRepeat ==
    /\ Init
    /\ strategy = "simple"
    /\ ctx_paths \in SeqsUpTo(Paths \cap Site, MaxPaths)

\* faulty variant: the collections are dropped before a traversal
_database_dropped(stored) == EmptyBag

\* MongoDBClient._database: the database of the process-wide client; what a
\* collection holds is kept from one fetch to the next
_database(stored) == stored

\* fetch is called again with the same arguments once the traversal before
\* has returned or raised: a new context, a new client, nursery and gate
fetch ==
    /\ pc \in {"returned", "raised"}
    /\ run < MaxRuns
    /\ run' = run + 1
    /\ earlier' = sink
    /\ sink' = _database(sink)
    /\ pc' = "fetch"
    /\ base_idx' = 1
    /\ batch' = <<>>
    /\ task' = <<>>
    /\ semaphore' = 0
    /\ lot' = <<>>
    /\ cancelled' = FALSE
    /\ errors' = {}
    /\ result' = "none"
    /\ UNCHANGED <<strategy, ctx_paths, number_of_pages,
                   max_concurrent_requests, now, rotator, client, backoff>>

\* the steps of a traversal leave run and earlier alone: they are in config
NextRepeat ==
    \/ SimpleFetch
    \/ \E p \in Tasks : StartTask(p)
    \/ \E p \in Tasks : Retry(p)
    \/ \E p \in Tasks : SendGet(p)
    \/ \E p \in Tasks : Response(p)
    \/ \E p \in Tasks : Cancelled(p)
    \/ NurseryExit
    \/ fetch

SpecRepeat == InitRepeat /\ [][NextRepeat]_vars

\* the paths _paginate dispatches for the j-th base path of the context
batch_of(j) ==
    dispatch_paths(paginate_paths(ctx_paths[j],
                                  _get_number_of_pages(ctx_paths[j])),
                   ctx_paths)

\* the base paths whose batch is over and is no longer held in `task`
Earlier ==
    IF pc = "fetch" THEN 1..(base_idx - 2) ELSE 1..(base_idx - 1)

\* the document _process_response builds for the response to path
document_of(path) == HTTPResponse(path, status_of(path))

\* ---------------------------------------------------------------- claims
\* C1: within one batch the number of tasks that hold an admission permit
\* (in the rate-limit delay or in the network call, the insert being part of
\* the step that ends the call) never exceeds max_concurrent_requests.
C1_AdmissionBound ==
    Cardinality(Holders) <= max_concurrent_requests

\* a batch of more paths than permits with the gate full and a task parked
C1_Witness ==
    /\ pc = "nursery"
    /\ Len(batch) > max_concurrent_requests
    /\ Cardinality(Holders) = max_concurrent_requests
    /\ lot # <<>>

\* C2: when one path of a batch exhausts its retries, no sibling of the batch
\* is aborted (as stated by the claim; the nursery cancels the siblings).
C2_SiblingsNotAborted ==
    (\E p \in Tasks : Exhausted(p))
        => \A q \in Tasks : task[q].st # "cancelled"

\* C3: a path never gets more than max_retry_attempts attempts, and a path
\* whose wrapper has ended and whose attempts all failed with a retryable
\* failure got exactly max_retry_attempts attempts and raised RetryError
\* (as stated by the claim; a path cancelled in backoff stops short).
C3_CeilingThenTerminal ==
    \A p \in Tasks :
        /\ task[p].attempts <= max_retry_attempts
        /\ (task[p].st \in Final /\ OnlyRetryable(p))
              => /\ task[p].attempts = max_retry_attempts
                 /\ Exhausted(p)

\* C4: a response with a non-2xx status is never handed to the sink (as
\* stated by the claim; get returns it and _process_response inserts it).
C4_NonSuccessNotPersisted ==
    \A document \in BagToSet(sink) : document.status_code \in 200..299

\* C5: a path whose wrapper has ended and whose attempts failed only with
\* retryable kinds until possibly succeeding got min(ceiling, attempts until
\* the first success) attempts (as stated by the claim; see C2).
C5_AttemptsUntilSuccess ==
    \A p \in Tasks :
        LET h == task[p].hist
            failures == IF h # <<>> /\ h[Len(h)] = "returned"
                        THEN SubSeq(h, 1, Len(h) - 1) ELSE h
            until_success == IF h # <<>> /\ h[Len(h)] = "returned"
                             THEN Len(h) ELSE max_retry_attempts + 1
        IN  (/\ task[p].st \in Final
             /\ \A i \in 1..Len(failures) :
                    failures[i] \in {"HTTPStatusError", "RequestError"})
                => task[p].attempts = Min(max_retry_attempts, until_success)

\* C6: an attempt that fails with a kind outside the retryable set is the
\* last attempt of its path: no backoff and no further attempt follows, a
\* first attempt failing so leaves exactly one attempt, and the exception
\* itself is raised into the nursery.
C6_NoRetryOutsideSet ==
    \A p \in Tasks : \A i \in 1..Len(task[p].hist) :
        task[p].hist[i] \in {"OtherError", "PyMongoError"}
            => /\ i = Len(task[p].hist)
               /\ task[p].attempts = i
               /\ task[p].st = "failed"
               /\ [task |-> p, path |-> batch[p], exc |-> task[p].hist[i]]
                     \in errors

\* a first attempt ended with a non-retryable exception of the transport
C6_Witness ==
    \E p \in Tasks :
        /\ task[p].hist = <<"OtherError">>
        /\ task[p].attempts = 1
        /\ task[p].st = "failed"

\* C7: a failed insert ends its path at once: the attempt that hit it is the
\* last one, nothing of that attempt is in the sink, the PyMongoError is
\* raised into the nursery and the traversal raises instead of returning.
C7_SinkFailurePropagates ==
    \A p \in Tasks :
        "PyMongoError" \in {task[p].hist[i] : i \in 1..Len(task[p].hist)}
            => /\ task[p].hist[Len(task[p].hist)] = "PyMongoError"
               /\ task[p].attempts = Len(task[p].hist)
               /\ task[p].st = "failed"
               /\ \E e \in errors : e.task = p /\ e.exc = "PyMongoError"
               /\ pc \in {"nursery", "raised"}
               /\ result \in {"none", "raised"}

\* the insert of a retried path failed and the traversal has raised
C7_Witness ==
    /\ pc = "raised"
    /\ \E p \in Tasks : /\ task[p].attempts > 1
                        /\ task[p].hist[Len(task[p].hist)] = "PyMongoError"

\* C8: permits are conserved while a batch runs and all of them are back
\* once its scope has closed, however the tasks ended.
C8_NoPermitLeak ==
    /\ pc = "nursery"
          => semaphore + Cardinality(Holders) = max_concurrent_requests
    /\ ScopeClosed
          => /\ semaphore = max_concurrent_requests
             /\ lot = <<>>
             /\ Holders = {}

\* a scope closed after a task was cancelled while it held a permit
C8_Witness ==
    /\ pc = "raised"
    /\ semaphore = max_concurrent_requests
    /\ \E p \in Tasks : /\ task[p].st = "cancelled"
                        /\ task[p].hist # <<>>
                        /\ task[p].hist[Len(task[p].hist)] = "Cancelled"
    /\ \E p \in Tasks : task[p].st = "failed"

\* C9: a paginated traversal with a fixed count K >= 1 over one base path
\* dispatches exactly the K paths p?page=1 .. p?page=K, one task each, and
\* when it returns the sink holds exactly K documents, one per derived path.
C9_FixedPages ==
    (/\ strategy = "paginated"
     /\ number_of_pages.kind = "fixed"
     /\ number_of_pages.n >= 1
     /\ Len(ctx_paths) = 1
     /\ pc # "fetch")
        => /\ Len(batch) = number_of_pages.n
           /\ DOMAIN task = 1..number_of_pages.n
           /\ \A i \in 1..number_of_pages.n :
                 batch[i] = ctx_paths[1] \o "?page=" \o ToString(i)
           /\ pc = "returned"
                 => /\ BagCardinality(sink) = number_of_pages.n
                    /\ \A i \in 1..number_of_pages.n :
                          Cardinality({d \in BagToSet(sink) :
                              d.url = base_url \o ctx_paths[1]
                                        \o "?page=" \o ToString(i)}) = 1

\* a fixed count of at least two pages, all persisted
C9_Witness ==
    /\ strategy = "paginated"
    /\ number_of_pages.kind = "fixed"
    /\ number_of_pages.n >= 2
    /\ Len(ctx_paths) = 1
    /\ pc = "returned"
    /\ BagCardinality(sink) = number_of_pages.n

\* C10: a traversal over an empty path set ends in a failure (as stated by
\* the claim; the code opens an empty nursery and returns the read-back).
C10_EmptyFailsFast ==
    (ctx_paths = <<>> /\ pc \in {"returned", "raised"}) => result = "raised"

\* C11 (as stated by the claim): the identity of a request is selected only
\* after its sleep, so a task sleeping in get has selected no identity for
\* the call it is about to make.
C11_SleepThenSelect ==
    \A p \in Tasks : task[p].st = "delay" => task[p].selected = task[p].calls

\* C11 (amended): get first selects the identity, then sleeps, then issues the
\* network call: a sleeping task has one selection more than calls, a task in
\* its call as many, and every entry into get, retried ones too, selects
\* exactly one identity.
C11_SelectSleepCall ==
    \A p \in Tasks :
        /\ task[p].st = "delay"
              => /\ task[p].selected = task[p].calls + 1
                 /\ task[p].selected = task[p].attempts
        /\ task[p].st = "network"
              => /\ task[p].selected = task[p].calls
                 /\ task[p].calls = task[p].attempts
        /\ task[p].calls <= task[p].selected
        /\ task[p].selected <= task[p].calls + 1
        /\ task[p].selected <= task[p].attempts

\* a retried attempt sleeping in get with its identity already selected
C11_Witness ==
    \E p \in Tasks :
        /\ task[p].st = "delay"
        /\ task[p].attempts = 2
        /\ task[p].selected = 2
        /\ task[p].calls = 1

\* C12: any two network calls made through one client, calls of different
\* concurrent tasks included, are at least the configured interval apart.
C12_MinimumSpacing == gap >= interval

\* C13: the dispatch scope is structured: whenever the main task is past a
\* nursery block, every task that block spawned has finished, and fetch has
\* handed a result to its caller only with the traversal over and no task
\* spawned, parked, sleeping, in a call or in backoff.
C13_StructuredScope ==
    /\ (pc \in {"returned", "raised"} \/ (pc = "fetch" /\ base_idx > 1))
          => \A p \in Tasks : task[p].st \in {"done", "failed", "cancelled"}
    /\ result # "none"
          => /\ pc \in {"returned", "raised"}
             /\ \A p \in Tasks : task[p].st \in {"done", "failed", "cancelled"}
             /\ lot = <<>>

\* fetch raised after a batch in which one task failed, one was cancelled
C13_Witness ==
    /\ result = "raised"
    /\ \E p \in Tasks : task[p].st = "failed"
    /\ \E p \in Tasks : task[p].st = "cancelled"

\* C14: a response is in the sink from the step that completes its attempt,
\* also while siblings still run, and stays readable through
\* get_all_documents after the traversal has raised: for every document the
\* read-back holds at least as many copies as tasks of the batch completed
\* with it.
C14_PartialDurability ==
    \A p \in Tasks :
        task[p].st = "done"
            => LET document == [url |-> base_url \o batch[p],
                                status_code |-> status_of(batch[p])]
               IN  CopiesIn(document, get_all_documents(sink))
                     >= Cardinality({q \in Tasks :
                                       /\ task[q].st = "done"
                                       /\ batch[q] = batch[p]})

\* the traversal raised and the document of a completed sibling is read back
C14_Witness ==
    /\ pc = "raised"
    /\ \E p, q \in Tasks :
          /\ task[p].st = "done"
          /\ task[q].st = "failed"
          /\ BagIn([url |-> base_url \o batch[p],
                    status_code |-> status_of(batch[p])],
                   get_all_documents(sink))

\* C15: when the traversal raises, every task whose retries were exhausted
\* (max_retry_attempts attempts, all failed with a retryable kind, wrapper
\* ended in failure) is among the exceptions raised, with its path.
C15_AllFailuresReported ==
    pc = "raised"
        => \A p \in Tasks :
              (/\ task[p].st = "failed"
               /\ Len(task[p].hist) = max_retry_attempts
               /\ OnlyRetryable(p))
                 => [task |-> p, path |-> batch[p], exc |-> "RetryError"]
                       \in errors

\* two paths of one batch exhausted their retries and both are reported
C15_Witness ==
    /\ pc = "raised"
    /\ \E p, q \in Tasks :
          /\ p # q
          /\ task[p].st = "failed" /\ task[q].st = "failed"
          /\ Len(task[p].hist) = max_retry_attempts /\ OnlyRetryable(p)
          /\ Len(task[q].hist) = max_retry_attempts /\ OnlyRetryable(q)
          /\ Cardinality(errors) >= 2

\* C16: every call of the rotator returns the string of a member of the
\* pool and changes the last_used of the selected member only; the other
\* members, the membership and the order of the pool stay as they were.
C16_SelectFrame ==
    [][/\ Len(user_agents') = Len(user_agents)
       /\ \A i \in DOMAIN user_agents :
             [user_agents'[i] EXCEPT !.last_used = 0]
                = [user_agents[i] EXCEPT !.last_used = 0]
       /\ ua_returned' # "none"
             => \E i \in DOMAIN user_agents :
                   user_agents[i].agent = ua_returned'
       /\ \A i, j \in DOMAIN user_agents :
             (/\ user_agents'[i].last_used # user_agents[i].last_used
              /\ user_agents'[j].last_used # user_agents[j].last_used)
                => i = j
       /\ \A i \in DOMAIN user_agents :
             user_agents'[i].last_used # user_agents[i].last_used
                => /\ ua_returned' = user_agents[i].agent
                   /\ user_agents'[i].last_used = now]_vars

\* a pool of two where one member was returned and stamped after the
\* import and the other still carries the instant of the import
C16_Witness ==
    /\ Len(user_agents) >= 2
    /\ \E i, j \in DOMAIN user_agents :
          /\ i # j
          /\ user_agents[i].agent = ua_returned
          /\ user_agents[i].last_used > 1
          /\ user_agents[j].last_used = 1

\* C17: the last_used of every member of the pool never decreases, whatever
\* the order in which the running tasks call the rotator.
C17_LastUsedMonotone ==
    [][\A i \in DOMAIN user_agents :
          user_agents'[i].last_used >= user_agents[i].last_used]_vars

\* every member of a pool of two was selected after the import, at
\* different instants
C17_Witness ==
    /\ Len(user_agents) >= 2
    /\ \A i \in DOMAIN user_agents : user_agents[i].last_used > 1
    /\ \E i, j \in DOMAIN user_agents :
          user_agents[i].last_used < user_agents[j].last_used

\* C18: the simple strategy dispatches the context's paths as they are, one
\* task per occurrence in the same order, and over the default paths a
\* traversal that returns has persisted exactly one document, the root's.
C18_SimpleDispatch ==
    /\ (strategy = "simple" /\ pc # "fetch")
          => /\ batch = ctx_paths
             /\ DOMAIN task = 1..Len(ctx_paths)
    /\ (strategy = "simple" /\ ctx_paths = <<"/">> /\ pc = "returned")
          => sink = SetToBag({[url |-> "https://example.test/",
                               status_code |-> 200]})

\* the default traversal has returned with its one document
C18_Witness ==
    /\ strategy = "simple"
    /\ ctx_paths = <<"/">>
    /\ pc = "returned"
    /\ BagCardinality(sink) = 1
\* C19: the waits of one path lie between the minimum wait (2 s) and the
\* maximum wait (10 s), and none is smaller than the one before it.
C19_WaitsBoundedMonotone ==
    \A p \in DOMAIN wrapper :
        \A i \in 1..Len(wrapper[p].waits) :
            /\ wrapper[p].waits[i] >= 2
            /\ wrapper[p].waits[i] <= 10
            /\ i > 1 => wrapper[p].waits[i] >= wrapper[p].waits[i - 1]

\* a path that waited five times: its last wait is the maximum
C19_Witness ==
    \E p \in DOMAIN wrapper :
        /\ Len(wrapper[p].waits) >= 5
        /\ wrapper[p].waits[5] = 10
        /\ wrapper[p].waits[1] = 2

\* C20 as stated: the first wait is the minimum wait and every later wait
\* is twice the one before it, until the maximum wait is reached.
C20_DoublingFromFirst ==
    \A p \in DOMAIN wrapper :
        \A i \in 1..Len(wrapper[p].waits) :
            wrapper[p].waits[i] =
                IF i = 1 THEN 2 ELSE Min(2 * wrapper[p].waits[i - 1], 10)

\* C20: the first wait is the minimum wait, the second wait equals the
\* first, and from the third on every wait is twice the one before it,
\* until the maximum wait is reached.
C20_DoublingFromThird ==
    \A p \in DOMAIN wrapper :
        \A i \in 1..Len(wrapper[p].waits) :
            wrapper[p].waits[i] =
                IF i = 1 THEN 2
                ELSE IF i = 2 THEN wrapper[p].waits[1]
                ELSE Min(2 * wrapper[p].waits[i - 1], 10)

\* a path that failed at its fifth attempt: it waited four times, the
\* third wait being the first that doubles
C20_Witness ==
    /\ ceiling >= 5
    /\ \E p \in DOMAIN wrapper :
          /\ wrapper[p].st = "failed"
          /\ Len(wrapper[p].waits) = 4
          /\ wrapper[p].waits[3] = 4

\* C21: for every base path and every resolved count K >= 0 the paths handed
\* to the dispatcher are exactly p?page=1 .. p?page=K, so for K = 0 nothing
\* is dispatched (as stated by the claim; the code falls back to the
\* context's own paths when the derived list is empty).
C21_ExactlyDerivedPaths ==
    (strategy = "paginated" /\ pc = "nursery")
        => batch = [page \in 1.._get_number_of_pages(ctx_paths[base_idx]) |->
                       ctx_paths[base_idx] \o "?page=" \o ToString(page)]

\* C22: batches follow the order of the context's paths and never overlap,
\* so every request that is waiting, sleeping, in flight or backing off
\* belongs to the one base path whose batch is running (as stated by the
\* claim; with a count of 0 the batch of one base path holds the others).
C22_OneBasePathInFlight ==
    (strategy = "paginated" /\ pc = "nursery")
        => \A p \in Tasks :
              task[p].st \in {"parked", "delay", "network", "backoff"}
                 => \/ batch[p] = ctx_paths[base_idx]
                    \/ \E page \in 1..MaxPages :
                          batch[p] = ctx_paths[base_idx] \o "?page="
                                        \o ToString(page)

\* C23: every dispatched path puts at most one document into the sink, and
\* exactly one when one of its attempts succeeded: the sink holds as many
\* documents as paths completed, in the batches that are over and in the
\* running one, and in the first batch exactly one copy of a document per
\* task that completed with it, whatever the number of attempts made.
C23_OneDocumentPerPath ==
    /\ BagCardinality(sink)
          = Cardinality(UNION {{<<j, i>> : i \in 1..Len(batch_of(j))} :
                                  j \in Earlier})
            + Cardinality({p \in Tasks : task[p].st = "done"})
    /\ Earlier = {}
          => \A p \in Tasks :
                CopiesIn(document_of(batch[p]), sink)
                   = Cardinality({q \in Tasks :
                        /\ task[q].st = "done"
                        /\ batch[q] = batch[p]})

\* in a later batch a path succeeded at a retry while a sibling's attempt
\* failed: one copy of the retried path's document, none of the sibling's
C23_Witness ==
    /\ base_idx >= 2
    /\ pc = "nursery"
    /\ \E p, q \in Tasks :
          /\ task[p].st = "done"
          /\ task[p].attempts >= 2
          /\ task[q].st \in {"failed", "backoff"}
          /\ batch[q] # batch[p]
          /\ CopiesIn(document_of(batch[p]), sink) = 1
          /\ CopiesIn(document_of(batch[q]), sink) = 0

\* C24: a task in backoff holds no permit: the permit goes back when the
\* failed attempt ends, so while a batch runs the permits that are out are
\* exactly those of the tasks sleeping in get or in a network call, and a
\* path waits at the gate only while every permit is held by such a task.
C24_NoPermitInBackoff ==
    pc = "nursery"
        => /\ max_concurrent_requests - semaphore
                 = Cardinality({p \in Tasks :
                                   task[p].st \in {"delay", "network"}})
           /\ (\E p \in Tasks : task[p].st = "parked")
                 => semaphore = 0

\* more paths than permits: one path backs off after a failed attempt while
\* the other, which had to wait at the gate or retried, holds the permit
C24_Witness ==
    /\ pc = "nursery"
    /\ ~cancelled
    /\ max_concurrent_requests = 1
    /\ Len(batch) > max_concurrent_requests
    /\ \E p, q \in Tasks :
          /\ task[p].st = "backoff"
          /\ task[q].st = "network"
          /\ task[q].attempts = 1

\* C25: every traversal terminates: fetch returns or raises, every path of
\* the batch has by then been admitted by the gate and has reached a final
\* state after at most max_retry_attempts attempts (as stated by the claim;
\* a path waiting at the gate when a sibling fails is cancelled unadmitted).
C25_AdmittedAndTerminates ==
    <>(/\ pc \in {"returned", "raised"}
       /\ \A p \in Tasks :
             /\ task[p].st \in Final
             /\ task[p].selected >= 1
             /\ task[p].attempts <= max_retry_attempts)

\* C26: once a path of the batch of base path i has failed terminally, the
\* traversal never gets to a later base path: the main task stays in that
\* batch's nursery until it raises, no sequence is returned, and when it has
\* raised the documents of the base paths before i and of the completed
\* paths of batch i are in the sink.
C26_FailureEndsTraversal ==
    /\ (\E p \in Tasks : task[p].st = "failed")
          => /\ pc \in {"nursery", "raised"}
             /\ result \in {"none", "raised"}
             /\ batch = batch_of(base_idx)
    /\ pc = "raised"
          => /\ result = "raised"
             /\ \E p \in Tasks : task[p].st = "failed"
             /\ \A j \in 1..(base_idx - 1) :
                   \A i \in DOMAIN batch_of(j) :
                       BagIn(document_of(batch_of(j)[i]), sink)
             /\ \A p \in Tasks :
                   task[p].st = "done"
                      => BagIn(document_of(batch[p]), sink)

\* the batch of the first of two base paths failed after one of its pages
\* was persisted: the traversal has raised without touching the second
C26_Witness ==
    /\ strategy = "paginated"
    /\ pc = "raised"
    /\ Len(ctx_paths) = 2
    /\ base_idx = 1
    /\ number_of_pages.n >= 2
    /\ \E p, q \in Tasks :
          /\ task[p].st = "done"
          /\ task[q].st = "failed"
          /\ BagIn(document_of(batch[p]), sink)

\* C27: a later traversal returns the whole collection: every document the
\* earlier traversals persisted, those of a traversal that raised included,
\* plus one per path that completed in this traversal, since nothing clears
\* the collection between or during traversals.
C27_WholeCollection ==
    /\ \A document \in BagToSet(earlier) :
          CopiesIn(document, get_all_documents(sink))
             >= CopiesIn(document, earlier)
    /\ pc = "returned"
          => \A document \in BagToSet(earlier)
                               \cup {document_of(batch[p]) : p \in Tasks} :
                CopiesIn(document, get_all_documents(sink))
                   = CopiesIn(document, earlier)
                     + Cardinality({p \in Tasks :
                          /\ task[p].st = "done"
                          /\ document_of(batch[p]) = document})

\* a second traversal has returned after a first one that raised with one
\* document persisted: the sequence holds that document and the new ones
C27_Witness ==
    /\ run = 2
    /\ pc = "returned"
    /\ result = "sequence"
    /\ ctx_paths # <<>>
    /\ BagCardinality(earlier) = Len(ctx_paths) - 1
    /\ BagCardinality(earlier) >= 1
    /\ BagCardinality(get_all_documents(sink))
          = BagCardinality(earlier) + Len(ctx_paths)

====
